---- MODULE Spec2Model ----
(***************************************************************************)
(* ARK cheat generator (src/cheat_generator.py): the command/parameter     *)
(* assembly of CheatApp.  A Python str is a sequence of one-character      *)
(* strings; the application object is a record whose fields are the        *)
(* variables below; every handler is an operator from application state to *)
(* application state, composed the way the handlers call each other.       *)
(***************************************************************************)
EXTENDS Integers, Sequences, FiniteSets, TLC

VARIABLES
    files,              \* which cache files the installation holds (read-only)
    tab,                \* self.tabs.currentIndex()
    search,             \* text of each search box
    dd_items, dd_creatures, dd_locations, dd_colors, dd_commands,  \* combo boxes
    dd_region,          \* current index of the region combo
    qty, qual, bp,      \* item options
    cmd_param_widgets,  \* list of (label, widget) of the selected command
    out_lbl,            \* text of the output field
    desc_lbl,           \* text of the description label
    raised,             \* an exception left a handler
    favorites,          \* FavoritesManager.favorites
    favorites_file,     \* favorites.json on disk
    favorites_list,     \* the list widget of the Favorites tab and its current row
    auto_copy,          \* auto_copy_act.isChecked()
    clipboard,          \* text of the system clipboard
    focus,              \* the search box _focus_search gave the focus to last
    shortcut,           \* the key sequence whose shortcut ran last ("" when the
                        \* last event was no shortcut)
    json_data,          \* clean_json_file: the value read from the source file
    json_cleaned        \* clean_json_file: the value written to the target file

appvars == <<files, tab, search, dd_items,
             dd_creatures, dd_locations, dd_colors, dd_commands, dd_region, qty, qual,
             bp, cmd_param_widgets, out_lbl, desc_lbl, raised>>

vars == <<files, tab, search, dd_items,
          dd_creatures, dd_locations, dd_colors, dd_commands, dd_region, qty, qual,
          bp, cmd_param_widgets, out_lbl, desc_lbl, raised,
          favorites, favorites_file, favorites_list, auto_copy, clipboard, focus,
          shortcut, json_data, json_cleaned>>

----------------------------------------------------------------------------
(* Python str operations, on sequences of characters.                      *)

\* Python's None where a str is expected: no str equals it.
None == <<"None">>

Uppers == <<"A","B","C","D","E","F","G","H","I","J","K","L","M",
            "N","O","P","Q","R","S","T","U","V","W","X","Y","Z">>
Lowers == <<"a","b","c","d","e","f","g","h","i","j","k","l","m",
            "n","o","p","q","r","s","t","u","v","w","x","y","z">>
Digits == <<"0","1","2","3","4","5","6","7","8","9">>

IsSpace(c) == c \in {" ", "\t"}

lowerChar(c) ==
    IF \E i \in 1..26 : Uppers[i] = c
    THEN Lowers[CHOOSE i \in 1..26 : Uppers[i] = c] ELSE c

upperChar(c) ==
    IF \E i \in 1..26 : Lowers[i] = c
    THEN Uppers[CHOOSE i \in 1..26 : Lowers[i] = c] ELSE c

lower(s) == [i \in 1..Len(s) |-> lowerChar(s[i])]
upper(s) == [i \in 1..Len(s) |-> upperChar(s[i])]

\* sub in s
contains(sub, s) ==
    \E i \in 0..(Len(s) - Len(sub)) : SubSeq(s, i + 1, i + Len(sub)) = sub

\* s.startswith(p)
startswith(s, p) == Len(p) <= Len(s) /\ SubSeq(s, 1, Len(p)) = p

RECURSIVE SplitTokens(_, _)
SplitTokens(s, cur) ==
    IF s = <<>> THEN (IF cur = <<>> THEN <<>> ELSE <<cur>>)
    ELSE IF IsSpace(Head(s))
         THEN (IF cur = <<>> THEN <<>> ELSE <<cur>>) \o SplitTokens(Tail(s), <<>>)
         ELSE SplitTokens(Tail(s), Append(cur, Head(s)))

\* s.split(): the maximal runs of non-whitespace
split(s) == SplitTokens(s, <<>>)

RECURSIVE lstrip(_)
lstrip(s) == IF s # <<>> /\ IsSpace(Head(s)) THEN lstrip(Tail(s)) ELSE s

RECURSIVE rstrip(_)
rstrip(s) ==
    IF s # <<>> /\ IsSpace(s[Len(s)]) THEN rstrip(SubSeq(s, 1, Len(s) - 1)) ELSE s

strip(s) == rstrip(lstrip(s))

RECURSIVE join(_, _)
join(sep, parts) ==
    IF parts = <<>> THEN <<>>
    ELSE IF Len(parts) = 1 THEN parts[1]
    ELSE parts[1] \o sep \o join(sep, Tail(parts))

RECURSIVE NatToStr(_)
NatToStr(n) ==
    IF n < 10 THEN <<Digits[n + 1]>>
    ELSE Append(NatToStr(n \div 10), Digits[(n % 10) + 1])

\* str(n) of an int
str(n) == IF n < 0 THEN <<"-">> \o NatToStr(0 - n) ELSE NatToStr(n)

\* f"{v/10:.1f}" of an int v: v/10 rounded to one decimal is v tenths exactly
FormatTenths(v) ==
    LET a == IF v < 0 THEN 0 - v ELSE v
    IN  (IF v < 0 THEN <<"-">> ELSE <<>>)
        \o NatToStr(a \div 10) \o <<".">> \o <<Digits[(a % 10) + 1]>>

RECURSIVE FindAllFrom(_, _)
FindAllFrom(s, i) ==
    IF i > Len(s) THEN <<>>
    ELSE IF s[i] = "<" /\ \E j \in (i + 2)..Len(s) : s[j] = ">" /\ s[i + 1] # ">"
         THEN LET j == CHOOSE k \in (i + 1)..Len(s) :
                          /\ s[k] = ">"
                          /\ \A m \in (i + 1)..(k - 1) : s[m] # ">"
              IN  <<SubSeq(s, i + 1, j - 1)>> \o FindAllFrom(s, j + 1)
         ELSE FindAllFrom(s, i + 1)

\* re.findall(r"<([^>]+)>", s)
findall_placeholders(s) == FindAllFrom(s, 1)

\* s[:n] of a list
Take(s, n) == SubSeq(s, 1, IF Len(s) < n THEN Len(s) ELSE n)

----------------------------------------------------------------------------
(* String constants of the program.                                        *)

s_KillAOE == <<"K","i","l","l","A","O","E">>
s_SetGamma == <<"S","e","t","G","a","m","m","a">>
s_ClearWater == <<"C","l","e","a","r","W","a","t","e","r">>
s_SpawnExactDino == <<"S","p","a","w","n","E","x","a","c","t","D","i","n","o">>
s_GFI == <<"G","F","I">>
s_Amount == <<"A","m","o","u","n","t">>
s_Level == <<"L","e","v","e","l">>
s_Quality == <<"Q","u","a","l","i","t","y">>
s_Stats == <<"S","t","a","t","s">>
s_Radius == <<"R","a","d","i","u","s">>
s_Category == <<"C","a","t","e","g","o","r","y">>
s_Value == <<"V","a","l","u","e">>
s_Fixed_0 == <<"F","i","x","e","d"," ","0">>
s_VolumetricFog == <<"r",".","V","o","l","u","m","e","t","r","i","c","F","o","g">>

KillAOECategories ==
    << <<"p","a","w","n","s">>, <<"d","i","n","o","s">>, <<"t","a","m","e","d">>,
       <<"p","l","a","y","e","r","s">>, <<"w","i","l","d">>,
       <<"s","t","r","u","c","t","u","r","e","s">> >>

IntegerMarkers == <<s_Amount, s_Level, s_Quality, s_Stats>>

BooleanPrefixes ==
    << <<"t","r","u","e">>, <<"f","a","l","s","e">>, <<"p","r","e","v","e","n","t">>,
       <<"c","l","o","n","e","d">>, <<"n","e","u","t","e","r","e","d">> >>

----------------------------------------------------------------------------
(* Qt widgets.  A widget is a record; the fields a class does not have stay *)
(* at their defaults.                                                      *)

Widget == [cls |-> "QWidget", lo |-> 0, hi |-> 0, value |-> 0, checked |-> FALSE,
           text |-> <<>>, entries |-> <<>>, index |-> -1, enabled |-> TRUE]

\* QAbstractSlider/QSpinBox keep the value inside the range
Clamp(v, lo, hi) == IF v < lo THEN lo ELSE IF v > hi THEN hi ELSE v

\* QComboBox: the list of (text, userData) and the current index; inserting
\* into an empty combo box makes the first entry current
Combo(entries) == [entries |-> entries, index |-> IF entries = <<>> THEN -1 ELSE 0]

currentData(combo) ==
    IF combo.index = -1 THEN None ELSE combo.entries[combo.index + 1].data

currentText(combo) ==
    IF combo.index = -1 THEN <<>> ELSE combo.entries[combo.index + 1].text

\* A combo box filled from a catalog holds, per entry, the catalog record it was
\* filled from (by its position in the catalog); its text and userData are
\* fields of that record.
CatalogCombo(rows) == [rows |-> rows, index |-> IF rows = <<>> THEN -1 ELSE 0]

\* the catalog record of the current entry (index # -1)
currentRow(combo, source) == source[combo.rows[combo.index + 1]]

\* currentData() of a catalog combo box whose userData is field key_data
catalogData(combo, source, key_data) ==
    IF combo.index = -1 THEN None ELSE currentRow(combo, source)[key_data]

\* a QSpinBox starts at value 0 and setRange moves it into the range
_make_spin(lo, hi) ==
    [Widget EXCEPT !.cls = "QSpinBox", !.lo = lo, !.hi = hi, !.value = Clamp(0, lo, hi)]

_make_lineedit == [Widget EXCEPT !.cls = "QLineEdit"]

_make_checkbox == [Widget EXCEPT !.cls = "QCheckBox"]

_make_fixed_zero ==
    [Widget EXCEPT !.cls = "QSpinBox", !.lo = 0, !.hi = 0, !.value = 0, !.enabled = FALSE]

_make_slider(lo, hi, v) ==
    [Widget EXCEPT !.cls = "QSlider", !.lo = lo, !.hi = hi, !.value = Clamp(v, lo, hi)]

_make_combo(source, key_name, key_data) ==
    LET c == Combo([i \in 1..Len(source) |->
                      [text |-> source[i][key_name], data |-> source[i][key_data]]])
    IN  [Widget EXCEPT !.cls = "QComboBox", !.entries = c.entries, !.index = c.index]

Row(label, w) == [label |-> label, w |-> w]

----------------------------------------------------------------------------
(* _build_cmd_inputs: the parameter widgets of a command descriptor.       *)

KillAOEInputs ==
    << Row(s_Category,
           _make_combo([i \in 1..Len(KillAOECategories) |->
                           [name |-> KillAOECategories[i]]], "name", "name")),
       Row(s_Radius, _make_spin(0, 9999)) >>

\* GFIInputs with the Amount and Quality rows in the other order
GFIInputs_QualityFirst(its) ==
    << Row(<<"B","l","u","e","p","r","i","n","t"," ","/"," ","G","F","I">>,
           _make_combo(its, "name", "id")),
       Row(s_Quality, _make_spin(0, 100)),
       Row(s_Amount, _make_spin(1, 9999)),
       Row(<<"F","o","r","c","e"," ","B","l","u","e","p","r","i","n","t">>,
           _make_checkbox) >>

GFIInputs(its) ==
    << Row(<<"B","l","u","e","p","r","i","n","t"," ","/"," ","G","F","I">>,
           _make_combo(its, "name", "id")),
       Row(s_Amount, _make_spin(1, 9999)),
       Row(s_Quality, _make_spin(0, 100)),
       Row(<<"F","o","r","c","e"," ","B","l","u","e","p","r","i","n","t">>,
           _make_checkbox) >>

GammaDefault == 10

SetGammaInputs == << Row(s_Value, _make_slider(0, 60, GammaDefault)) >>

ClearWaterInputs == << Row(s_ClearWater, _make_checkbox) >>

SpawnExactDinoInputs(its, cres) ==
    << Row(<<"B","l","u","e","p","r","i","n","t">>, _make_combo(cres, "name", "class")),
       Row(<<"S","a","d","d","l","e"," ","B","l","u","e","p","r","i","n","t">>,
           _make_combo(its, "name", "id")),
       Row(<<"S","a","d","d","l","e"," ","Q","u","a","l","i","t","y">>, _make_spin(0, 9999)),
       Row(<<"B","a","s","e"," ","L","e","v","e","l">>, _make_spin(0, 9999)),
       Row(<<"E","x","t","r","a"," ","L","e","v","e","l","s">>, _make_spin(0, 9999)),
       Row(<<"B","a","s","e"," ","S","t","a","t","s">>, _make_lineedit),
       Row(<<"A","d","d","e","d"," ","S","t","a","t","s">>, _make_lineedit),
       Row(<<"N","a","m","e">>, _make_lineedit),
       Row(<<"C","l","o","n","e","d">>, _make_checkbox),
       Row(<<"N","e","u","t","e","r","e","d">>, _make_checkbox),
       Row(<<"T","a","m","e","d"," ","D","a","t","e">>, _make_lineedit),
       Row(<<"U","p","l","o","a","d","e","d"," ","F","r","o","m">>, _make_lineedit),
       Row(<<"I","m","p","r","i","n","t","e","r"," ","N","a","m","e">>, _make_lineedit),
       Row(<<"I","m","p","r","i","n","t","e","r"," ","I","D">>, _make_lineedit),
       Row(<<"I","m","p","r","i","n","t"," ","Q","u","a","l","i","t","y">>, _make_spin(0, 100)),
       Row(s_Fixed_0, _make_fixed_zero),
       Row(<<"R","e","g","i","o","n"," ","C","o","l","o","r","s">>, _make_lineedit),
       Row(<<"C","r","e","a","t","u","r","e"," ","I","D">>, _make_spin(-9999, 9999)),
       Row(<<"E","x","p","e","r","i","e","n","c","e">>, _make_spin(-9999, 9999)),
       Row(<<"S","p","a","w","n"," ","D","i","s","t","a","n","c","e">>, _make_spin(-9999, 9999)),
       Row(<<"S","p","a","w","n"," ","Y">>, _make_spin(-9999, 9999)),
       Row(<<"S","p","a","w","n"," ","Z">>, _make_spin(-9999, 9999)) >>

\* IsIntegerParam without the "Quality" marker
IsIntegerParam_NoQuality(param) ==
    \E k \in 1..Len(IntegerMarkers) :
        IntegerMarkers[k] # s_Quality /\ contains(IntegerMarkers[k], param)

\* any(x in param for x in ("Amount","Level","Quality","Stats"))
IsIntegerParam(param) ==
    \E k \in 1..Len(IntegerMarkers) : contains(IntegerMarkers[k], param)

\* IsBooleanParam with the prefixes "true", "false" and "prevent" only
IsBooleanParam_ThreePrefixes(param) ==
    \E k \in 1..3 : startswith(lower(param), BooleanPrefixes[k])

\* param.lower().startswith(("true","false","prevent","cloned","neutered"))
IsBooleanParam(param) ==
    \E k \in 1..Len(BooleanPrefixes) : startswith(lower(param), BooleanPrefixes[k])

\* the widget of one <placeholder> of the generic branch
GenericWidget(param) ==
    IF IsIntegerParam(param) THEN _make_spin(0, 999999)
    ELSE IF IsBooleanParam(param) THEN _make_checkbox
    ELSE _make_lineedit

\* GenericInputs with every whitespace token of the template taken for a placeholder
GenericInputs_EveryToken(syntax) ==
    LET params == split(syntax)
    IN  [i \in 1..Len(params) |-> Row(params[i], GenericWidget(params[i]))]

GenericInputs(syntax) ==
    LET params == findall_placeholders(syntax)
    IN  [i \in 1..Len(params) |-> Row(params[i], GenericWidget(params[i]))]

\* len(syntax.split()) > 1 and syntax.split()[1].upper() == "GFI"
IsGFIShape(syntax) ==
    Len(split(syntax)) > 1 /\ upper(split(syntax)[2]) = s_GFI

\* the if/elif chain of _build_cmd_inputs: the rows of descriptor cmd
resolveParameters(cmd, its, cres) ==
    IF cmd.name = s_KillAOE THEN KillAOEInputs
    ELSE IF IsGFIShape(cmd.syntax) THEN GFIInputs(its)
    ELSE IF cmd.name = s_SetGamma THEN SetGammaInputs
    ELSE IF cmd.name = s_ClearWater THEN ClearWaterInputs
    ELSE IF cmd.name = s_SpawnExactDino THEN SpawnExactDinoInputs(its, cres)
    ELSE GenericInputs(cmd.syntax)

----------------------------------------------------------------------------
(* run_app: the catalogs, loaded from the cache files and sorted by        *)
(* lower-cased name.                                                       *)

AsciiOrder == <<"\t"," ","#","-",".","/","0","1","2","3","4","5","6","7","8","9","<",">",
                "A","B","C","D","E","F","G","H","I","J","K","L","M",
                "N","O","P","Q","R","S","T","U","V","W","X","Y","Z","_",
                "a","b","c","d","e","f","g","h","i","j","k","l","m",
                "n","o","p","q","r","s","t","u","v","w","x","y","z">>

Ord(c) == CHOOSE i \in 1..Len(AsciiOrder) : AsciiOrder[i] = c

\* a < b of two str
RECURSIVE StrLess(_, _)
StrLess(a, b) ==
    IF b = <<>> THEN FALSE
    ELSE IF a = <<>> THEN TRUE
    ELSE IF Head(a) = Head(b) THEN StrLess(Tail(a), Tail(b))
    ELSE Ord(Head(a)) < Ord(Head(b))

\* what list.sort(key=lambda c: c["name"].lower()) leaves: no entry's key is
\* below its predecessor's
IsSortedByName(seq) ==
    \A i \in 1..(Len(seq) - 1) : ~StrLess(lower(seq[i + 1].name), lower(seq[i].name))

TplGfi == <<"c","h","e","a","t"," ","g","f","i"," ","<","B","p",">"," ","<","A","m","o","u","n","t",">"," ","<","Q","u","a","l","i","t","y",">"," ","<","F","o","r","c","e",">">>
TplGen == <<"a","d","m","i","n","c","h","e","a","t"," ","D","o"," ","<","I","t","e","m","Q","u","a","l","i","t","y",">"," ","<","C","l","o","n","e","d","L","e","v","e","l",">"," ","<","n","e","u","t","e","r","e","d","X",">"," ","<","N","a","m","e",">">>
TplOne == <<"F","l","y">>
TplVerb == <<"K","i","l","l"," ","<","A","m","o","u","n","t",">">>

TplGfiBare == <<"c","h","e","a","t"," ","G","F","I">>

Templates == <<TplGfi, TplGen, TplOne, TplVerb, TplGfiBare>>

TemplateDescriptions == <<<<"g","i","v","e"," ","i","t","e","m">>, <<"m","i","s","c">>, <<"m","i","s","c">>, <<"m","i","s","c">>, <<"m","i","s","c">>>>

CommandNames == <<s_ClearWater, <<"F","l","y">>, s_KillAOE, s_SetGamma>>

\* a commands_cache.json as sorted: each of CommandNames with every template, and
\* SpawnExactDino with the give-item template and with a template of no placeholder
CommandFile ==
    [k \in 1..(Len(CommandNames) * Len(Templates)) |->
        [name |-> CommandNames[((k - 1) \div Len(Templates)) + 1],
         syntax |-> Templates[((k - 1) % Len(Templates)) + 1],
         description |-> TemplateDescriptions[((k - 1) % Len(Templates)) + 1]]]
    \o << [name |-> s_SpawnExactDino, syntax |-> TplGfi, description |-> <<"g","i","v","e"," ","i","t","e","m">>],
          [name |-> s_SpawnExactDino, syntax |-> TplOne, description |-> <<"m","i","s","c">>] >>

ItemFile == << [name |-> <<"A","x","e">>, id |-> <<"1","2","3">>],
               [name |-> <<"H","a","t">>, id |-> None] >>
CreatureFile == << [name |-> <<"R","e","x">>, class |-> <<"R","e","x","_","C">>] >>
LocationFile == << [name |-> <<"B","a","y">>, code |-> <<"1"," ","2"," "," ","3">>],
                   [name |-> <<"C","a","v","e">>, code |-> <<"4"," ","5">>] >>
TamingFile == << [name |-> <<"R","e","x">>] >>
ColorFile == << [name |-> <<"R","e","d">>, id |-> <<"1">>, hex |-> <<"#","f","0","0">>] >>

\* what run_app hands to CheatApp (sorted); a missing cache file loads as the empty list
Installations ==
    << [items |-> <<>>, creatures |-> <<>>, locations |-> <<>>, colors |-> <<>>,
        commands |-> <<>>, taming |-> <<>>],
       [items |-> <<>>, creatures |-> <<>>, locations |-> <<>>, colors |-> <<>>,
        commands |-> CommandFile, taming |-> <<>>],
       [items |-> ItemFile, creatures |-> CreatureFile,
        locations |-> LocationFile, colors |-> ColorFile,
        commands |-> CommandFile, taming |-> TamingFile] >>

\* self.items, self.creatures, self.locations, self.colors, self.commands,
\* self.taming
items == Installations[files].items
creatures == Installations[files].creatures
locations == Installations[files].locations
colors == Installations[files].colors
commands == Installations[files].commands
taming == Installations[files].taming

----------------------------------------------------------------------------
(* _update_output: the command string of the active tab.                   *)

TabItems == 0
TabCreatures == 1
taming_index == 2
TabLocations == 3
TabColors == 4
TabCommands == 5
favorites_index == 6
info_index == 7
tabsize == 8

\* WidgetToken with the text of a line edit taken as typed
WidgetToken_Unstripped(w) ==
    IF w.cls = "QSpinBox" THEN str(w.value)
    ELSE IF w.cls = "QSlider" THEN FormatTenths(w.value)
    ELSE IF w.cls = "QCheckBox" THEN (IF w.checked THEN <<"1">> ELSE <<"0">>)
    ELSE IF w.cls = "QLineEdit" THEN w.text
    ELSE IF currentData(w) # None THEN currentData(w) ELSE currentText(w)

\* the token one parameter widget contributes
WidgetToken(w) ==
    IF w.cls = "QSpinBox" THEN str(w.value)
    ELSE IF w.cls = "QSlider" THEN FormatTenths(w.value)
    ELSE IF w.cls = "QCheckBox" THEN (IF w.checked THEN <<"1">> ELSE <<"0">>)
    ELSE IF w.cls = "QLineEdit" THEN strip(w.text)
    ELSE IF currentData(w) # None THEN currentData(w) ELSE currentText(w)

\* the Commands branch for a selected descriptor cmd and its widgets
CommandText(cmd, widgets) ==
    IF cmd.name = s_ClearWater
    THEN IF \E i \in 1..Len(widgets) : widgets[i].label = s_ClearWater
         THEN LET cb == widgets[CHOOSE i \in 1..Len(widgets) :
                                   /\ widgets[i].label = s_ClearWater
                                   /\ \A j \in 1..(i - 1) : widgets[j].label # s_ClearWater].w
              IN  s_VolumetricFog \o <<" ">> \o (IF cb.checked THEN <<"0">> ELSE <<"1">>)
         ELSE <<>>
    ELSE join(<<" ">>, Take(split(cmd.syntax), 2)
                       \o [i \in 1..Len(widgets) |-> WidgetToken(widgets[i].w)])

\* x, y, z = data.split() raises unless there are exactly three tokens
LocationUnpacks(data) == Len(split(data)) = 3

\* the text _update_output computes for application state s (raising aside)
OutputText(s) ==
    IF s.tab = TabItems
    THEN LET gid == catalogData(s.dd_items, items, "id")
         IN  IF gid # None /\ gid # <<>>
             THEN <<"c","h","e","a","t"," ","g","f","i"," ">> \o gid \o <<" ">>
                  \o str(s.qty) \o <<" ">> \o str(s.qual) \o <<" ">>
                  \o (IF s.bp THEN <<"1">> ELSE <<"0">>)
             ELSE <<>>
    ELSE IF s.tab = TabCreatures
    THEN LET cls == catalogData(s.dd_creatures, creatures, "class")
         IN  IF cls # None /\ cls # <<>>
             THEN <<"a","d","m","i","n","c","h","e","a","t"," ","S","u","m","m","o","n"," ">>
                  \o cls
             ELSE <<>>
    ELSE IF s.tab = taming_index THEN <<>>
    ELSE IF s.tab = info_index THEN <<>>
    ELSE IF s.tab = favorites_index THEN <<>>
    ELSE IF s.tab = TabLocations
    THEN LET data == catalogData(s.dd_locations, locations, "code")
         IN  IF data # None /\ data # <<>>
             THEN <<"c","h","e","a","t"," ","s","e","t","p","l","a","y","e","r","p","o","s"," ">>
                  \o join(<<" ">>, split(data))
             ELSE <<>>
    ELSE IF s.tab = TabColors
    THEN IF s.dd_colors.index # -1
         THEN <<"c","h","e","a","t"," ","s","e","t","T","a","r","g","e","t","D","i","n","o",
                "C","o","l","o","r"," ">>
              \o str(s.dd_region) \o <<" ">> \o currentRow(s.dd_colors, colors).id
         ELSE <<>>
    ELSE IF s.dd_commands.index # -1
         THEN CommandText(currentRow(s.dd_commands, commands), s.cmd_param_widgets)
         ELSE <<>>

\* _update_output raises on the Locations tab when the code does not unpack
OutputRaises(s) ==
    /\ s.tab = TabLocations
    /\ LET data == catalogData(s.dd_locations, locations, "code")
       IN  data # None /\ data # <<>> /\ ~LocationUnpacks(data)

_update_output(s) ==
    IF s.raised THEN s
    ELSE IF OutputRaises(s) THEN [s EXCEPT !.raised = TRUE]
    ELSE [s EXCEPT !.out_lbl = OutputText(s)]


----------------------------------------------------------------------------
(* FavoritesManager.  A favorite is a record of command, description and   *)
(* tab_type (its timestamp, which nothing reads, is left out).  The file   *)
(* is missing, or holds the list json.dump wrote, or is corrupt (a write    *)
(* that failed half-way).                                                  *)

NoFile == [state |-> "missing", content |-> <<>>]
CorruptFile == [state |-> "corrupt", content |-> <<>>]
JsonFile(content) == [state |-> "json", content |-> content]

\* load_favorites: the list of the file when it is there and parses, [] when it
\* does not parse; with no file the list stays as it is
load_favorites(m) ==
    IF m.file.state = "json" THEN [m EXCEPT !.favorites = m.file.content]
    ELSE IF m.file.state = "corrupt" THEN [m EXCEPT !.favorites = <<>>]
    ELSE m

\* save_favorites: the list goes to the file; an IOError (disk = "refused": the
\* file could not be opened, "broken": the write stopped half-way) is caught
save_favorites(m, disk) ==
    IF disk = "ok" THEN [m EXCEPT !.file = JsonFile(m.favorites)]
    ELSE IF disk = "broken" THEN [m EXCEPT !.file = CorruptFile]
    ELSE m

add_favorite_NoDuplicateTest(m, command, description, tab_type, disk) ==
    save_favorites(
        [m EXCEPT !.favorites =
            Append(m.favorites, [command |-> command, description |-> description,
                                 tab_type |-> tab_type])], disk)

add_favorite(m, command, description, tab_type, disk) ==
    IF ~\E i \in 1..Len(m.favorites) : m.favorites[i].command = command
    THEN save_favorites(
            [m EXCEPT !.favorites =
                Append(m.favorites, [command |-> command, description |-> description,
                                     tab_type |-> tab_type])], disk)
    ELSE m

remove_favorite(m, command, disk) ==
    LET kept == SelectSeq(m.favorites, LAMBDA f : f.command # command)
    IN  IF Len(kept) < Len(m.favorites)
        THEN save_favorites([m EXCEPT !.favorites = kept], disk)
        ELSE [m EXCEPT !.favorites = kept]

\* FavoritesManager.__init__ over the file on disk
NewFavoritesManager(file) == load_favorites([favorites |-> <<>>, file |-> file])

\* the manager of a first start: no favorites.json yet
FavoritesManager == NewFavoritesManager(NoFile)

\* _update_favorites_list with the filter at "All": the list widget shows every
\* favorite and has no current row
_update_favorites_list(favs) == [rows |-> favs, current |-> -1]

----------------------------------------------------------------------------
(* The handlers of CheatApp, on the application state s.                   *)

Self == [tab |-> tab, search |-> search,
         dd_items |-> dd_items, dd_creatures |-> dd_creatures,
         dd_locations |-> dd_locations, dd_colors |-> dd_colors,
         dd_commands |-> dd_commands, dd_region |-> dd_region, qty |-> qty,
         qual |-> qual, bp |-> bp, cmd_param_widgets |-> cmd_param_widgets,
         out_lbl |-> out_lbl, desc_lbl |-> desc_lbl, raised |-> raised]

\* the positions 1..Len(source) in order
Positions(source) == [i \in 1..Len(source) |-> i]

\* the combo box _update_combo leaves: the entries whose name holds the term
_update_combo(text, source, key_name) ==
    LET term == lower(text)
    IN  CatalogCombo(SelectSeq(Positions(source),
                         LAMBDA i : contains(term, lower(source[i][key_name]))))

_update_colors(s) ==
    LET term == lower(s.search.colors)
    IN  [s EXCEPT !.dd_colors =
            CatalogCombo(SelectSeq(Positions(colors),
                             LAMBDA i : contains(term, lower(colors[i].name))))]

_update_commands(s) ==
    LET term == lower(s.search.commands)
    IN  [s EXCEPT !.dd_commands =
            CatalogCombo(SelectSeq(Positions(commands),
                LAMBDA i : \/ contains(term, lower(commands[i].name))
                           \/ contains(term, lower(commands[i].description))))]

_update_cmd_desc(s) ==
    [s EXCEPT !.desc_lbl = IF s.dd_commands.index # -1
                           THEN currentRow(s.dd_commands, commands).description
                           ELSE <<>>]

\* _build_cmd_inputs without the clearing of the old rows
_build_cmd_inputs_KeepsRows(s) ==
    IF s.raised THEN s
    ELSE IF s.dd_commands.index = -1 THEN s
    ELSE _update_output(
            [s EXCEPT !.cmd_param_widgets =
                s.cmd_param_widgets
                \o resolveParameters(currentRow(s.dd_commands, commands), items, creatures)])

_build_cmd_inputs(s) ==
    IF s.raised THEN s
    ELSE IF s.dd_commands.index = -1 THEN [s EXCEPT !.cmd_param_widgets = <<>>]
    ELSE _update_output(
            [s EXCEPT !.cmd_param_widgets =
                resolveParameters(currentRow(s.dd_commands, commands), items, creatures)])

\* _filter_lists without its closing _update_output
_filter_lists_NoRefresh(s) ==
    LET a == [s EXCEPT
                !.dd_items = _update_combo(s.search.items, items, "name"),
                !.dd_creatures = _update_combo(s.search.creatures, creatures, "name"),
                !.dd_locations = _update_combo(s.search.locations, locations, "name")]
    IN  _build_cmd_inputs(_update_commands(_update_colors(a)))

_filter_lists(s) ==
    LET a == [s EXCEPT
                !.dd_items = _update_combo(s.search.items, items, "name"),
                !.dd_creatures = _update_combo(s.search.creatures, creatures, "name"),
                !.dd_locations = _update_combo(s.search.locations, locations, "name")]
    IN  _update_output(_build_cmd_inputs(_update_commands(_update_colors(a))))

\* the state __init__ leaves
Construct ==
    LET s0 == [tab |-> TabItems,
               search |-> [items |-> <<>>, creatures |-> <<>>, taming |-> <<>>,
                           locations |-> <<>>, colors |-> <<>>, commands |-> <<>>],
               dd_items |-> CatalogCombo(<<>>), dd_creatures |-> CatalogCombo(<<>>),
               dd_locations |-> CatalogCombo(<<>>), dd_colors |-> CatalogCombo(<<>>),
               dd_commands |-> CatalogCombo(<<>>), dd_region |-> 0, qty |-> 1, qual |-> 1,
               bp |-> FALSE, cmd_param_widgets |-> <<>>, out_lbl |-> <<>>,
               desc_lbl |-> <<>>, raised |-> FALSE]
    IN  _update_output(_filter_lists(s0))

----------------------------------------------------------------------------
(* User inputs the model draws from.                                       *)

MaxEdits == 2

SpinSamples == {5, 50}
TextSamples == { <<" ","a"," ">> }

SearchBoxTab == [items |-> TabItems, creatures |-> TabCreatures, taming |-> taming_index,
                 locations |-> TabLocations, colors |-> TabColors, commands |-> TabCommands]

SearchTerms == [items |-> {<<>>}, creatures |-> {<<>>}, taming |-> {<<>>},
                locations |-> {<<>>}, colors |-> {<<>>},
                commands |-> {<<>>, <<"G","I","V","E">>, <<"z","z">>}]

----------------------------------------------------------------------------
(* The state machine: one action per user event.                           *)

\* _update_output's last lines: with Auto-copy on, a non-empty output goes to
\* the clipboard (every handler committed below ends in _update_output, and a
\* handler that raised did not reach setText)
AutoCopied(s) ==
    IF auto_copy /\ ~s.raised /\ s.out_lbl # <<>> THEN s.out_lbl ELSE clipboard

\* the widgets of the six generator tabs take the state s
AppCommit(s) ==
    /\ files' = files /\ tab' = s.tab
    /\ search' = s.search /\ dd_items' = s.dd_items /\ dd_creatures' = s.dd_creatures
    /\ dd_locations' = s.dd_locations /\ dd_colors' = s.dd_colors
    /\ dd_commands' = s.dd_commands /\ dd_region' = s.dd_region /\ qty' = s.qty
    /\ qual' = s.qual /\ bp' = s.bp /\ cmd_param_widgets' = s.cmd_param_widgets
    /\ out_lbl' = s.out_lbl /\ desc_lbl' = s.desc_lbl /\ raised' = s.raised

Commit(s) ==
    /\ AppCommit(s)
    /\ clipboard' = AutoCopied(s)
    /\ shortcut' = ""
    /\ UNCHANGED <<favorites, favorites_file, favorites_list, auto_copy, focus,
                   json_data, json_cleaned>>

\* clean_json_refs.py has read or written nothing
NoJson == [kind |-> "none", text |-> <<>>, elems |-> <<>>]

\* the window as constructed, but for the Auto-copy action and the JSON
\* documents of clean_json_refs.py
InitApp ==
    /\ files \in {f \in DOMAIN Installations :
                    /\ IsSortedByName(Installations[f].items)
                    /\ IsSortedByName(Installations[f].creatures)
                    /\ IsSortedByName(Installations[f].locations)
                    /\ IsSortedByName(Installations[f].commands)}
    /\ \E s \in {Construct} :
           /\ tab = s.tab
           /\ search = s.search /\ dd_items = s.dd_items /\ dd_creatures = s.dd_creatures
           /\ dd_locations = s.dd_locations /\ dd_colors = s.dd_colors
           /\ dd_commands = s.dd_commands /\ dd_region = s.dd_region /\ qty = s.qty
           /\ qual = s.qual /\ bp = s.bp /\ cmd_param_widgets = s.cmd_param_widgets
           /\ out_lbl = s.out_lbl /\ desc_lbl = s.desc_lbl /\ raised = s.raised
           /\ clipboard = s.out_lbl
    /\ favorites = FavoritesManager.favorites
    /\ favorites_file = FavoritesManager.file
    /\ favorites_list = _update_favorites_list(FavoritesManager.favorites)
    /\ focus = ""
    /\ shortcut = ""

\* Spec follows the window with Auto-copy switched off: _update_output then
\* leaves the clipboard alone.  SpecKeys has Auto-copy on and off.
Init == InitApp /\ auto_copy = FALSE /\ json_data = NoJson /\ json_cleaned = NoJson

\* widget w holds the value it was built with
Untouched(w) ==
    IF w.cls = "QSpinBox" THEN w.value = Clamp(0, w.lo, w.hi)
    ELSE IF w.cls = "QSlider" THEN w.value = GammaDefault
    ELSE IF w.cls = "QCheckBox" THEN ~w.checked
    ELSE IF w.cls = "QLineEdit" THEN w.text = <<>>
    ELSE w.index = (IF w.entries = <<>> THEN -1 ELSE 0)

\* how many parameter widgets of ws the user has changed
EditedCount(ws) == Cardinality({i \in 1..Len(ws) : ~Untouched(ws[i].w)})

\* the user edits parameter widget i into w: the widget's signal runs _update_output
ParamEdited(i, w) ==
    /\ ~raised
    /\ tab = TabCommands
    /\ cmd_param_widgets[i].w.enabled
    /\ w # cmd_param_widgets[i].w
    /\ LET ws == [cmd_param_widgets EXCEPT ![i].w = w]
       IN  /\ EditedCount(ws) <= MaxEdits
           /\ Commit(_update_output([Self EXCEPT !.cmd_param_widgets = ws]))

TabChanged(ix) ==
    /\ ~raised
    /\ ix # tab
    /\ Commit(_update_output([Self EXCEPT !.tab = ix]))

SearchTextChanged(box, text) ==
    /\ ~raised
    /\ tab = SearchBoxTab[box]
    /\ text # search[box]
    /\ Commit(_filter_lists([Self EXCEPT !.search[box] = text]))

CommandSelected(i) ==
    /\ ~raised
    /\ tab = TabCommands
    /\ i # dd_commands.index
    /\ Commit(_build_cmd_inputs(_update_cmd_desc([Self EXCEPT !.dd_commands.index = i])))

LocationSelected(i) ==
    /\ ~raised
    /\ tab = TabLocations
    /\ i # dd_locations.index
    /\ Commit(_update_output([Self EXCEPT !.dd_locations.index = i]))

SpinValueChanged(i, v) ==
    /\ cmd_param_widgets[i].w.cls = "QSpinBox"
    /\ LET w == cmd_param_widgets[i].w
       IN  ParamEdited(i, [w EXCEPT !.value = Clamp(v, w.lo, w.hi)])

SliderValueChanged(i, v) ==
    /\ cmd_param_widgets[i].w.cls = "QSlider"
    /\ LET w == cmd_param_widgets[i].w
       IN  ParamEdited(i, [w EXCEPT !.value = Clamp(v, w.lo, w.hi)])

CheckStateChanged(i) ==
    /\ cmd_param_widgets[i].w.cls = "QCheckBox"
    /\ LET w == cmd_param_widgets[i].w
       IN  ParamEdited(i, [w EXCEPT !.checked = ~w.checked])

LineTextChanged(i, text) ==
    /\ cmd_param_widgets[i].w.cls = "QLineEdit"
    /\ ParamEdited(i, [cmd_param_widgets[i].w EXCEPT !.text = text])

ParamComboIndexChanged(i, k) ==
    /\ cmd_param_widgets[i].w.cls = "QComboBox"
    /\ k < Len(cmd_param_widgets[i].w.entries)
    /\ ParamEdited(i, [cmd_param_widgets[i].w EXCEPT !.index = k])

Next ==
    \/ \E ix \in 0..(tabsize - 1) : TabChanged(ix)
    \/ \E box \in DOMAIN SearchTerms : \E text \in SearchTerms[box] :
          SearchTextChanged(box, text)
    \/ \E i \in 0..(Len(dd_commands.rows) - 1) : CommandSelected(i)
    \/ \E i \in 0..(Len(dd_locations.rows) - 1) : LocationSelected(i)
    \/ \E i \in 1..Len(cmd_param_widgets) : \E v \in SpinSamples : SpinValueChanged(i, v)
    \/ \E i \in 1..Len(cmd_param_widgets) : \E v \in 0..60 : SliderValueChanged(i, v)
    \/ \E i \in 1..Len(cmd_param_widgets) : CheckStateChanged(i)
    \/ \E i \in 1..Len(cmd_param_widgets) : \E text \in TextSamples : LineTextChanged(i, text)
    \/ \E i \in 1..Len(cmd_param_widgets) : \E k \in 0..5 : ParamComboIndexChanged(i, k)

Spec == Init /\ [][Next]_vars

----------------------------------------------------------------------------
(* SpecStore: the FavoritesManager alone, called with any command,         *)
(* description and tab type, over starts of the program that load the file *)
(* the program wrote.                                                      *)

MaxFavorites == 3

StoreCommands == { <<"a">>, <<"b">> }
StoreDescriptions == { <<"x">>, <<"y">> }
StoreTabTypes == { <<"I","t","e","m","s">>, <<"C","o","m","m","a","n","d","s">> }
DiskOutcomes == {"ok", "refused", "broken"}

\* self.favorites_manager
Manager == [favorites |-> favorites, file |-> favorites_file]

StoreCommit(m) ==
    /\ favorites' = m.favorites
    /\ favorites_file' = m.file
    /\ UNCHANGED appvars
    /\ UNCHANGED <<favorites_list, auto_copy, clipboard, focus, shortcut,
                   json_data, json_cleaned>>

InitStore ==
    InitApp /\ files = 1 /\ auto_copy = TRUE /\ json_data = NoJson /\ json_cleaned = NoJson

AddFavorite(command, description, tab_type, disk) ==
    /\ Len(favorites) < MaxFavorites
    /\ StoreCommit(add_favorite(Manager, command, description, tab_type, disk))

RemoveFavorite(command, disk) ==
    StoreCommit(remove_favorite(Manager, command, disk))

\* the program is started again: a new manager loads the file
Restart == StoreCommit(NewFavoritesManager(favorites_file))

NextStore ==
    \/ \E command \in StoreCommands : \E description \in StoreDescriptions :
          \E tab_type \in StoreTabTypes : \E disk \in DiskOutcomes :
             AddFavorite(command, description, tab_type, disk)
    \/ \E command \in StoreCommands : \E disk \in DiskOutcomes :
          RemoveFavorite(command, disk)
    \/ Restart

SpecStore == InitStore /\ [][NextStore]_vars

----------------------------------------------------------------------------
(* The window around the generator tabs: toolbar, clipboard, keyboard      *)
(* shortcuts and the Favorites tab.  A handler takes the window w: the     *)
(* application state, the favorites manager, the favorites list widget,    *)
(* the clipboard and the search box that has the focus.                    *)

Window == [app |-> Self, manager |-> Manager, favorites_list |-> favorites_list,
           clipboard |-> clipboard, focus |-> focus]

\* tabs.tabText(ix)
TabTexts == << <<"I","t","e","m","s">>, <<"C","r","e","a","t","u","r","e","s">>, <<"T","a","m","i","n","g">>, <<"L","o","c","a","t","i","o","n","s">>, <<"D","i","n","o"," ","C","o","l","o","r">>,
               <<"C","o","m","m","a","n","d","s">>, <<"F","a","v","o","r","i","t","e","s">>, <<"I","n","f","o">> >>

tabText(ix) == TabTexts[ix + 1]

\* currentText() of a catalog combo box, whose texts are the names
catalogText(combo, source) ==
    IF combo.index = -1 THEN <<>> ELSE currentRow(combo, source).name

\* the Taming combo box as _filter_lists fills it
dd_taming(s) == _update_combo(s.search.taming, taming, "name")

\* a handler of w runs _update_output, which shows s and auto-copies
Shown(w, s) ==
    [w EXCEPT !.app = s,
              !.clipboard = IF auto_copy /\ ~s.raised /\ s.out_lbl # <<>>
                            THEN s.out_lbl ELSE w.clipboard]

\* tabs.setCurrentIndex(ix): currentChanged runs _update_output when the tab changes
setCurrentIndex(w, ix) ==
    IF ix = w.app.tab THEN w ELSE Shown(w, _update_output([w.app EXCEPT !.tab = ix]))

_copy_to_clip(w) ==
    IF w.app.out_lbl # <<>> THEN [w EXCEPT !.clipboard = w.app.out_lbl] ELSE w

\* the list fields of _focus_search
fields == <<"search_items", "search_creatures", "search_locations", "search_colors",
            "search_commands">>

\* fields[idx].setFocus(): IndexError past the end of the list
_focus_search(w) ==
    LET idx == w.app.tab
    IN  IF idx + 1 \in DOMAIN fields THEN [w EXCEPT !.focus = fields[idx + 1]]
        ELSE [w EXCEPT !.app.raised = TRUE]

\* what the user does with the description dialog: desc, ok
DialogReplies == {[ok |-> TRUE, edit |-> "keep"], [ok |-> TRUE, edit |-> "clear"],
                  [ok |-> FALSE, edit |-> "keep"]}

_add_to_favorites(w, reply) ==
    LET s == w.app
        idx == s.tab
        tabname == tabText(idx)
        cmd == IF idx = taming_index THEN catalogText(dd_taming(s), taming) ELSE s.out_lbl
        name == IF idx = TabItems THEN catalogText(s.dd_items, items)
                ELSE IF idx = TabCreatures THEN catalogText(s.dd_creatures, creatures)
                ELSE IF idx = taming_index THEN catalogText(dd_taming(s), taming)
                ELSE IF idx = TabLocations THEN catalogText(s.dd_locations, locations)
                ELSE IF idx = TabColors THEN catalogText(s.dd_colors, colors)
                ELSE IF idx = TabCommands THEN catalogText(s.dd_commands, commands)
                ELSE cmd
        default_desc == tabname \o <<" ","-"," ">> \o name
        desc == IF reply.edit = "keep" THEN default_desc ELSE <<>>
    IN  IF cmd = <<>> THEN w
        ELSE IF ~(reply.ok /\ desc # <<>>) THEN w
        ELSE LET m == add_favorite(w.manager, cmd, desc, tabname, "ok")
             IN  [w EXCEPT !.manager = m,
                           !.favorites_list = _update_favorites_list(m.favorites)]

\* index_map of _use_favorite
index_map == << <<"I","t","e","m","s">>, <<"C","r","e","a","t","u","r","e","s">>, <<"T","a","m","i","n","g">>, <<"L","o","c","a","t","i","o","n","s">>, <<"D","i","n","o"," ","C","o","l","o","r">>,
                <<"C","o","m","m","a","n","d","s">> >>

\* index_map.get(t, 0)
index_map_get(t) ==
    IF \E i \in DOMAIN index_map : index_map[i] = t
    THEN (CHOOSE i \in DOMAIN index_map : index_map[i] = t) - 1
    ELSE 0

\* _use_favorite(item), item the row of the list widget or -1 for no item
_use_favorite(w, item) ==
    IF item = -1 THEN w
    ELSE LET fav == w.favorites_list.rows[item + 1]
             w1 == setCurrentIndex(w, index_map_get(fav.tab_type))
         IN  IF w1.app.raised THEN w1
             ELSE IF fav.tab_type = <<"T","a","m","i","n","g">> THEN w1
             ELSE [w1 EXCEPT !.app.out_lbl = fav.command,
                             !.clipboard = IF auto_copy /\ fav.command # <<>>
                                           THEN fav.command ELSE w1.clipboard]

_remove_favorite(w) ==
    LET item == w.favorites_list.current
    IN  IF item = -1 THEN w
        ELSE LET fav == w.favorites_list.rows[item + 1]
                 m == remove_favorite(w.manager, fav.command, "ok")
             IN  IF Len(m.favorites) < Len(w.manager.favorites)
                 THEN [w EXCEPT !.manager = m,
                                !.favorites_list = _update_favorites_list(m.favorites)]
                 ELSE w

WindowCommit(w, key) ==
    /\ AppCommit(w.app)
    /\ favorites' = w.manager.favorites
    /\ favorites_file' = w.manager.file
    /\ favorites_list' = w.favorites_list
    /\ clipboard' = w.clipboard
    /\ focus' = w.focus
    /\ shortcut' = key
    /\ UNCHANGED <<auto_copy, json_data, json_cleaned>>

\* the Auto-copy action of the toolbar is checked or unchecked
AutoCopyToggled ==
    /\ ~raised
    /\ auto_copy' = ~auto_copy
    /\ shortcut' = ""
    /\ UNCHANGED appvars
    /\ UNCHANGED <<favorites, favorites_file, favorites_list, clipboard, focus,
                   json_data, json_cleaned>>

----------------------------------------------------------------------------
(* SpecKeys: the keyboard shortcuts of _connect_signals, with the full set *)
(* of cache files.                                                         *)

\* QKeySequence(f"Ctrl+{i+1}")
CtrlDigitKeys == <<"Ctrl+1", "Ctrl+2", "Ctrl+3", "Ctrl+4", "Ctrl+5", "Ctrl+6", "Ctrl+7",
                   "Ctrl+8">>

InitKeys ==
    InitApp /\ files = 3 /\ auto_copy = TRUE /\ json_data = NoJson /\ json_cleaned = NoJson

CtrlC == ~raised /\ WindowCommit(_copy_to_clip(Window), "Ctrl+C")

CtrlS == ~raised /\ WindowCommit(_focus_search(Window), "Ctrl+S")

CtrlF(reply) ==
    /\ ~raised
    /\ Len(favorites) < MaxFavorites
    /\ WindowCommit(_add_to_favorites(Window, reply), "Ctrl+F")

\* no shortcut is made for Ctrl+D: the window has no handler for it
CtrlD == ~raised /\ WindowCommit(Window, "Ctrl+D")

CtrlDigit(i) == ~raised /\ WindowCommit(setCurrentIndex(Window, i), CtrlDigitKeys[i + 1])

NextKeys ==
    \/ CtrlC
    \/ CtrlS
    \/ \E reply \in DialogReplies : CtrlF(reply)
    \/ CtrlD
    \/ \E i \in 0..(tabsize - 1) : CtrlDigit(i)
    \/ AutoCopyToggled

SpecKeys == InitKeys /\ [][NextKeys]_vars

----------------------------------------------------------------------------
(* SpecWindow: the generator tabs together with the toolbar's "Add to      *)
(* Favorites" and the Favorites tab, with the full set of cache files.     *)

\* the rows of the Commands combo box the user picks from
CommandSamples == {0, 1}

InitWindow ==
    InitApp /\ files = 3 /\ auto_copy = TRUE /\ json_data = NoJson /\ json_cleaned = NoJson

\* add_fav_act.triggered
AddToFavoritesTriggered(reply) ==
    /\ ~raised
    /\ Len(favorites) < MaxFavorites
    /\ WindowCommit(_add_to_favorites(Window, reply), "")

\* the user clicks row i of the favorites list, which becomes its current item
FavoriteClicked(i) ==
    /\ ~raised
    /\ tab = favorites_index
    /\ i # favorites_list.current
    /\ WindowCommit([Window EXCEPT !.favorites_list.current = i], "")

\* favorites_list.itemDoubleClicked
FavoriteDoubleClicked(i) ==
    /\ ~raised
    /\ tab = favorites_index
    /\ WindowCommit(_use_favorite([Window EXCEPT !.favorites_list.current = i], i), "")

\* use_fav_btn.clicked
UseClicked ==
    /\ ~raised
    /\ tab = favorites_index
    /\ WindowCommit(_use_favorite(Window, favorites_list.current), "")

\* remove_fav_btn.clicked
RemoveClicked ==
    /\ ~raised
    /\ tab = favorites_index
    /\ WindowCommit(_remove_favorite(Window), "")

NextWindow ==
    \/ \E ix \in 0..(tabsize - 1) : TabChanged(ix)
    \/ \E i \in CommandSamples : CommandSelected(i)
    \/ \E i \in 0..(Len(dd_locations.rows) - 1) : LocationSelected(i)
    \/ \E reply \in DialogReplies : AddToFavoritesTriggered(reply)
    \/ \E i \in 0..(Len(favorites_list.rows) - 1) : FavoriteClicked(i)
    \/ \E i \in 0..(Len(favorites_list.rows) - 1) : FavoriteDoubleClicked(i)
    \/ UseClicked
    \/ RemoveClicked

SpecWindow == InitWindow /\ [][NextWindow]_vars

----------------------------------------------------------------------------
(* clean_json_refs.py.  A JSON value is a node: a string (kind "str", its  *)
(* text), a list (kind "list", its elements), a dict (kind "dict", its     *)
(* items in order, each a node of kind "item" with the key as text and the *)
(* value as only element), or a number, boolean or null (kind "other").    *)

JsonStr(text) == [kind |-> "str", text |-> text, elems |-> <<>>]
JsonList(elems) == [kind |-> "list", text |-> <<>>, elems |-> elems]
JsonItem(key, value) == [kind |-> "item", text |-> key, elems |-> <<value>>]
JsonDict(its) == [kind |-> "dict", text |-> <<>>, elems |-> its]
JsonOther == [kind |-> "other", text |-> <<>>, elems |-> <<>>]

\* the literal parts of _pattern
RefOpen == <<":","c","o","n","t","e","n","t","R","e","f","e","r","e","n","c","e","[","o","a","i","c","i","t","e",":">>
RefIndex == <<"]","{","i","n","d","e","x","=">>
RefClose == <<"}">>

IsDigit(c) == \E i \in 1..Len(Digits) : Digits[i] = c

\* s holds lit at position i
LiteralAt(s, i, literal) ==
    i + Len(literal) - 1 <= Len(s) /\ SubSeq(s, i, i + Len(literal) - 1) = literal

\* \d+ from position i: the position after the longest run of digits
RECURSIVE DigitsEnd(_, _)
DigitsEnd(s, i) == IF i <= Len(s) /\ IsDigit(s[i]) THEN DigitsEnd(s, i + 1) ELSE i

\* _pattern.match at position i: the position after the match, or 0
MatchEnd(s, i) ==
    IF ~LiteralAt(s, i, RefOpen) THEN 0
    ELSE LET a == i + Len(RefOpen)
             b == DigitsEnd(s, a)
         IN  IF b = a \/ ~LiteralAt(s, b, RefIndex) THEN 0
             ELSE LET c == b + Len(RefIndex)
                      d == DigitsEnd(s, c)
                  IN  IF d = c \/ ~LiteralAt(s, d, RefClose) THEN 0
                      ELSE d + Len(RefClose)

\* _pattern.search(s) finds a match
_pattern_search(s) == \E i \in 1..Len(s) : MatchEnd(s, i) # 0

\* _pattern.sub('', s) from position i: one pass from the left over the
\* matches that do not overlap
RECURSIVE SubFrom(_, _)
SubFrom(s, i) ==
    LET starts == {j \in i..Len(s) : MatchEnd(s, j) # 0}
    IN  IF starts = {} THEN SubSeq(s, i, Len(s))
        ELSE LET j == CHOOSE k \in starts : \A l \in starts : k <= l
             IN  SubSeq(s, i, j - 1) \o SubFrom(s, MatchEnd(s, j))

_pattern_sub(s) == SubFrom(s, 1)

RECURSIVE clean_value(_)
clean_value(value) ==
    IF value.kind = "str" THEN [value EXCEPT !.text = _pattern_sub(value.text)]
    ELSE IF value.kind = "list"
    THEN [value EXCEPT !.elems = [i \in DOMAIN value.elems |-> clean_value(value.elems[i])]]
    ELSE IF value.kind = "dict"
    THEN [value EXCEPT !.elems =
             [i \in DOMAIN value.elems |->
                 JsonItem(value.elems[i].text, clean_value(value.elems[i].elems[1]))]]
    ELSE value

----------------------------------------------------------------------------
(* SpecClean: clean_json_file on documents whose strings are made of up to *)
(* MaxPieces pieces, and on its own output.                                *)

MaxPieces == 4

Pieces == << <<":","c","o","n","t","e","n","t","R","e","f">>, <<"e","r","e","n","c","e","[","o","a","i","c","i","t","e",":","1","]","{","i","n","d","e","x","=","2","}">>, <<"x">>, <<"3">> >>

RECURSIVE Concat(_)
Concat(parts) == IF parts = <<>> THEN <<>> ELSE Pieces[Head(parts)] \o Concat(Tail(parts))

\* the strings of the documents
Texts == UNION { {Concat(parts) : parts \in [1..n -> DOMAIN Pieces]} : n \in 0..MaxPieces }

\* the documents holding string text: alone, in a list, in a dict (under a key
\* that is itself a reference), and in a list inside a dict inside a list
Documents(text) ==
    { JsonStr(text),
      JsonList(<<JsonOther, JsonStr(text)>>),
      JsonDict(<<JsonItem(Concat(<<1, 2>>), JsonStr(text))>>),
      JsonList(<<JsonDict(<<JsonItem(<<"k">>, JsonList(<<JsonStr(text), JsonStr(<<"x">>)>>))>>)>>) }

InitClean ==
    /\ InitApp /\ files = 1 /\ auto_copy = TRUE
    /\ json_data \in UNION { Documents(text) : text \in Texts }
    /\ json_cleaned = NoJson

JsonCommit(data, cleaned) ==
    /\ json_data' = data
    /\ json_cleaned' = cleaned
    /\ UNCHANGED appvars
    /\ UNCHANGED <<favorites, favorites_file, favorites_list, auto_copy, clipboard, focus,
                   shortcut>>

\* clean_json_file(src, dst)
CleanJsonFile ==
    /\ json_cleaned = NoJson
    /\ JsonCommit(json_data, clean_value(json_data))

\* the script is run again, on the file it wrote
CleanedFileRead ==
    /\ json_cleaned # NoJson
    /\ json_cleaned # json_data
    /\ JsonCommit(json_cleaned, NoJson)

NextClean == CleanJsonFile \/ CleanedFileRead

SpecClean == InitClean /\ [][NextClean]_vars

----------------------------------------------------------------------------
(* Vocabulary of the properties: the selected command and its slots.       *)

\* a command is selected in the Commands combo box
HasCommand == dd_commands.index # -1

\* the descriptor of the selected command (HasCommand)
SelectedCommand == currentRow(dd_commands, commands)

\* the command names _build_cmd_inputs gives widgets of their own
NamedOverrides == {s_KillAOE, s_SetGamma, s_ClearWater, s_SpawnExactDino}

\* the kind of slot a widget is
SlotKind(w) ==
    IF w.cls \in {"QSpinBox", "QSlider"} THEN "Integer"
    ELSE IF w.cls = "QCheckBox" THEN "Boolean"
    ELSE IF w.cls = "QLineEdit" THEN "Text"
    ELSE "Choice"

\* rows without their current values: label, kind, range, options, editability
SlotShape(rows) ==
    [i \in 1..Len(rows) |->
        [label |-> rows[i].label, kind |-> SlotKind(rows[i].w), cls |-> rows[i].w.cls,
         lo |-> rows[i].w.lo, hi |-> rows[i].w.hi, entries |-> rows[i].w.entries,
         enabled |-> rows[i].w.enabled]]

\* widget w is an Integer slot of range [lo, hi] holding a value of the range
IsIntegerSlot(w, lo, hi) ==
    SlotKind(w) = "Integer" /\ w.lo = lo /\ w.hi = hi /\ w.value \in lo..hi

\* the descriptor is resolved by the generic fallback
IsGeneric(cmd) == cmd.name \notin NamedOverrides /\ ~IsGFIShape(cmd.syntax)

\* v / 10 written with one decimal digit
Tenths(v) == str(v \div 10) \o <<".">> \o str(v % 10)

\* the first two whitespace-separated tokens of the template
VerbTokens(cmd) == Take(split(cmd.syntax), 2)

----------------------------------------------------------------------------
(* C1 .. C10                                                               *)

\* C1: resolution goes by priority, first match wins: a command named KillAOE,
\* SetGamma, ClearWater or SpawnExactDino gets the slots of that name whatever
\* its template, also when the template's second token is GFI; otherwise a
\* template of the give-item shape gets the four give-item slots.
C1_NamedOverrideFirst ==
    HasCommand =>
        LET cmd == SelectedCommand
            shape == SlotShape(cmd_param_widgets)
        IN  /\ cmd.name = s_KillAOE => shape = SlotShape(KillAOEInputs)
            /\ cmd.name = s_SetGamma => shape = SlotShape(SetGammaInputs)
            /\ cmd.name = s_ClearWater => shape = SlotShape(ClearWaterInputs)
            /\ cmd.name = s_SpawnExactDino =>
                   shape = SlotShape(SpawnExactDinoInputs(items, creatures))
            /\ (cmd.name \notin NamedOverrides /\ IsGFIShape(cmd.syntax)) =>
                   shape = SlotShape(GFIInputs(items))

\* C2 as stated: every placeholder of the selected template whose name contains
\* "Quality" has a slot of its name that is an Integer of range [0, 999999].
C2_QualityIntegerAlways ==
    HasCommand =>
        LET params == findall_placeholders(SelectedCommand.syntax)
        IN  \A k \in 1..Len(params) :
                contains(s_Quality, params[k]) =>
                    \E i \in 1..Len(cmd_param_widgets) :
                        /\ cmd_param_widgets[i].label = params[k]
                        /\ IsIntegerSlot(cmd_param_widgets[i].w, 0, 999999)

\* C2 amended: when the selected command is resolved by the generic fallback
\* (its name is no named override and its template is not of the give-item
\* shape), the slot of every placeholder whose name contains "Quality" is an
\* Integer of range exactly [0, 999999].
C2_QualityIntegerGeneric ==
    (HasCommand /\ IsGeneric(SelectedCommand)) =>
        LET params == findall_placeholders(SelectedCommand.syntax)
        IN  /\ Len(cmd_param_widgets) = Len(params)
            /\ \A k \in 1..Len(params) :
                   contains(s_Quality, params[k]) =>
                       /\ cmd_param_widgets[k].label = params[k]
                       /\ IsIntegerSlot(cmd_param_widgets[k].w, 0, 999999)

\* a generic command with a "Quality" placeholder whose slot the user has set to 50
C2_Witness ==
    /\ tab = TabCommands /\ HasCommand /\ IsGeneric(SelectedCommand)
    /\ \E k \in 1..Len(cmd_param_widgets) :
           /\ contains(s_Quality, cmd_param_widgets[k].label)
           /\ cmd_param_widgets[k].label = findall_placeholders(SelectedCommand.syntax)[k]
           /\ cmd_param_widgets[k].w.value = 50

\* the prefixes C3 is about
ClonedNeutered == { <<"c","l","o","n","e","d">>, <<"n","e","u","t","e","r","e","d">> }

\* the placeholder name starts, lower-cased, with "cloned" or "neutered"
IsClonedNeutered(param) == \E p \in ClonedNeutered : startswith(lower(param), p)

\* the placeholder name contains "Amount", "Level", "Quality" or "Stats"
HasIntegerMarker(param) ==
    \E m \in {s_Amount, s_Level, s_Quality, s_Stats} : contains(m, param)

\* C3 as stated: the generic fallback gives every placeholder whose lower-cased
\* name starts with "cloned" or "neutered" a Boolean slot, also when the name
\* contains "Amount", "Level", "Quality" or "Stats".
C3_ClonedNeuteredBoolean ==
    (HasCommand /\ IsGeneric(SelectedCommand)) =>
        LET params == findall_placeholders(SelectedCommand.syntax)
        IN  /\ Len(cmd_param_widgets) = Len(params)
            /\ \A k \in 1..Len(params) :
                   IsClonedNeutered(params[k]) =>
                       SlotKind(cmd_param_widgets[k].w) = "Boolean"

\* C3 amended: the generic fallback gives every placeholder whose lower-cased
\* name starts with "cloned" or "neutered" and whose name contains none of
\* "Amount", "Level", "Quality", "Stats" a Boolean slot.
C3_ClonedNeuteredBooleanUnmarked ==
    (HasCommand /\ IsGeneric(SelectedCommand)) =>
        LET params == findall_placeholders(SelectedCommand.syntax)
        IN  /\ Len(cmd_param_widgets) = Len(params)
            /\ \A k \in 1..Len(params) :
                   (IsClonedNeutered(params[k]) /\ ~HasIntegerMarker(params[k])) =>
                       /\ cmd_param_widgets[k].label = params[k]
                       /\ SlotKind(cmd_param_widgets[k].w) = "Boolean"

\* a generic command whose "neutered..." slot the user has ticked
C3_Witness ==
    /\ tab = TabCommands /\ HasCommand /\ IsGeneric(SelectedCommand)
    /\ \E k \in 1..Len(cmd_param_widgets) :
           /\ IsClonedNeutered(cmd_param_widgets[k].label)
           /\ ~HasIntegerMarker(cmd_param_widgets[k].label)
           /\ cmd_param_widgets[k].w.cls = "QCheckBox"
           /\ cmd_param_widgets[k].w.checked

\* the token of a Choice slot: the data of the selected entry, its label when
\* the entry has no data
ChoiceToken(w) == IF currentData(w) # None THEN currentData(w) ELSE currentText(w)

\* the token C4 gives a slot: an Integer as its decimal value, a Boolean as 1 or
\* 0, a Text trimmed, a Choice by ChoiceToken
PlainToken(w) ==
    IF SlotKind(w) = "Integer" THEN str(w.value)
    ELSE IF SlotKind(w) = "Boolean" THEN (IF w.checked THEN <<"1">> ELSE <<"0">>)
    ELSE IF SlotKind(w) = "Text" THEN strip(w.text)
    ELSE ChoiceToken(w)

\* PlainToken, but the gamma slider as tenths
TokenWithGamma(w) == IF w.cls = "QSlider" THEN Tenths(w.value) ELSE PlainToken(w)

\* C4 as stated: for every selected command but the fog toggle the output is
\* the first two tokens of the template followed by one token per slot, in slot
\* order, joined by single spaces: Integer as its decimal value, Boolean as 1 or
\* 0, Text trimmed, Choice as the entry's data or else its label.
C4_RenderFormat ==
    (tab = TabCommands /\ HasCommand /\ SelectedCommand.name # s_ClearWater) =>
        out_lbl = join(<<" ">>, VerbTokens(SelectedCommand)
                     \o [i \in 1..Len(cmd_param_widgets) |->
                            PlainToken(cmd_param_widgets[i].w)])

\* C4 amended: the same, except that the gamma slider's Integer slot is written
\* as its value divided by ten with one decimal digit.
C4_RenderFormatGammaTenths ==
    (tab = TabCommands /\ HasCommand /\ SelectedCommand.name # s_ClearWater) =>
        out_lbl = join(<<" ">>, VerbTokens(SelectedCommand)
                     \o [i \in 1..Len(cmd_param_widgets) |->
                            TokenWithGamma(cmd_param_widgets[i].w)])

\* a generic command rendered after the user typed " a " into its Text slot
C4_Witness ==
    /\ tab = TabCommands /\ HasCommand /\ IsGeneric(SelectedCommand)
    /\ \E k \in 1..Len(cmd_param_widgets) :
           /\ cmd_param_widgets[k].w.cls = "QLineEdit"
           /\ cmd_param_widgets[k].w.text = <<" ","a"," ">>
    /\ out_lbl = <<"a","d","m","i","n","c","h","e","a","t"," ","D","o"," ","0"," ","0"," ","0"," ","a">>

\* C5: when a Choice slot of the selected command has no selected entry, the
\* output is the empty string.
C5_EmptyChoiceRendersEmpty ==
    (/\ tab = TabCommands /\ HasCommand
     /\ \E i \in 1..Len(cmd_param_widgets) :
            /\ SlotKind(cmd_param_widgets[i].w) = "Choice"
            /\ cmd_param_widgets[i].w.index = -1)
        => out_lbl = <<>>

\* C6: on the Commands tab with no command selected the output is the empty
\* string and nothing has failed.
C6_NoCommandRendersEmpty ==
    (tab = TabCommands /\ ~HasCommand) => (out_lbl = <<>> /\ ~raised)

\* the command catalog is not empty and the search term matches none of it
C6_Witness ==
    /\ tab = TabCommands /\ ~HasCommand
    /\ commands # <<>> /\ search.commands = <<"z","z">>
    /\ cmd_param_widgets = <<>>

\* C7: no event lets an exception out of resolving or rendering.
C7_NoExceptionPropagates == ~raised

\* C8: with the fog toggle (ClearWater) selected, whatever its template, the
\* output is "r.VolumetricFog 0" when its Boolean slot is set and
\* "r.VolumetricFog 1" when it is not.
C8_ClearWaterRendersFog ==
    (tab = TabCommands /\ HasCommand /\ SelectedCommand.name = s_ClearWater) =>
        /\ Len(cmd_param_widgets) = 1
        /\ SlotKind(cmd_param_widgets[1].w) = "Boolean"
        /\ out_lbl = s_VolumetricFog \o <<" ">>
                     \o (IF cmd_param_widgets[1].w.checked THEN <<"0">> ELSE <<"1">>)

\* C9: the gamma command (SetGamma) has a single Integer slot of range [0, 60],
\* and its value v is written as v / 10 with one decimal digit.
C9_GammaSingleSlider ==
    (HasCommand /\ SelectedCommand.name = s_SetGamma) =>
        /\ Len(cmd_param_widgets) = 1
        /\ IsIntegerSlot(cmd_param_widgets[1].w, 0, 60)
        /\ tab = TabCommands =>
               out_lbl = join(<<" ">>, VerbTokens(SelectedCommand)
                            \o <<Tenths(cmd_param_widgets[1].w.value)>>)

\* the four give-item slots, rendered after the two verb tokens in the order
\* item id, amount, quality, flag
GiveItemRendered ==
    /\ Len(cmd_param_widgets) = 4
    /\ SlotKind(cmd_param_widgets[1].w) = "Choice"
    /\ cmd_param_widgets[1].w.entries =
           [i \in 1..Len(items) |-> [text |-> items[i].name, data |-> items[i].id]]
    /\ IsIntegerSlot(cmd_param_widgets[2].w, 1, 9999)
    /\ IsIntegerSlot(cmd_param_widgets[3].w, 0, 100)
    /\ SlotKind(cmd_param_widgets[4].w) = "Boolean"
    /\ currentData(cmd_param_widgets[1].w) # None =>
           out_lbl = join(<<" ">>, VerbTokens(SelectedCommand)
                        \o << currentData(cmd_param_widgets[1].w),
                              str(cmd_param_widgets[2].w.value),
                              str(cmd_param_widgets[3].w.value),
                              IF cmd_param_widgets[4].w.checked THEN <<"1">> ELSE <<"0">> >>)

\* C10 as stated: every selected command whose template's second token is GFI
\* (any case) has the slots item Choice, amount Integer [1, 9999], quality
\* Integer [0, 100], Boolean flag, and renders the template's two verb tokens
\* followed by item id, amount, quality, flag.
C10_GiveItemShape ==
    (tab = TabCommands /\ HasCommand /\ IsGFIShape(SelectedCommand.syntax)) =>
        GiveItemRendered

\* C10 amended: the same for the commands whose name is none of KillAOE,
\* SetGamma, ClearWater, SpawnExactDino.
C10_GiveItemShapeUnnamed ==
    (/\ tab = TabCommands /\ HasCommand /\ IsGFIShape(SelectedCommand.syntax)
     /\ SelectedCommand.name \notin NamedOverrides) =>
        GiveItemRendered

\* item "123", amount 5, quality 50 and the flag off render "cheat gfi 123 5 50 0"
C10_Witness ==
    /\ tab = TabCommands /\ HasCommand /\ IsGFIShape(SelectedCommand.syntax)
    /\ SelectedCommand.name \notin NamedOverrides
    /\ Len(cmd_param_widgets) = 4
    /\ currentData(cmd_param_widgets[1].w) = <<"1","2","3">>
    /\ cmd_param_widgets[2].w.value = 5
    /\ cmd_param_widgets[3].w.value = 50
    /\ ~cmd_param_widgets[4].w.checked
    /\ out_lbl = <<"c","h","e","a","t"," ","g","f","i"," ","1","2","3"," ","5"," ","5","0"," ","0">>

----------------------------------------------------------------------------
(* C11 .. C20                                                              *)

\* the positions of the slots of range [0, 0] that cannot be edited
FixedZeroSlots ==
    {i \in 1..Len(cmd_param_widgets) :
        /\ cmd_param_widgets[i].w.lo = 0 /\ cmd_param_widgets[i].w.hi = 0
        /\ ~cmd_param_widgets[i].w.enabled}

\* C11: in every reachable state in which SpawnExactDino is selected, exactly
\* one slot has range [0, 0] and is disabled, it holds 0, and the token rendered
\* at its position is the literal "0".
C11_OneFixedZeroSlot ==
    (HasCommand /\ SelectedCommand.name = s_SpawnExactDino) =>
        /\ Cardinality(FixedZeroSlots) = 1
        /\ \A z \in FixedZeroSlots :
              /\ SlotKind(cmd_param_widgets[z].w) = "Integer"
              /\ cmd_param_widgets[z].w.value = 0
              /\ tab = TabCommands =>
                     out_lbl = join(<<" ">>, VerbTokens(SelectedCommand)
                                  \o [i \in 1..Len(cmd_param_widgets) |->
                                         IF i = z THEN <<"0">>
                                         ELSE TokenWithGamma(cmd_param_widgets[i].w)])

\* C12 as stated: a selected command whose template holds no <Placeholder>
\* token has an empty slot list, whatever its name.
C12_NoPlaceholderNoSlot ==
    (HasCommand /\ findall_placeholders(SelectedCommand.syntax) = <<>>) =>
        cmd_param_widgets = <<>>

\* C12 amended: a selected command that is resolved by the generic fallback
\* (its name is none of KillAOE, SetGamma, ClearWater, SpawnExactDino and the
\* second token of its template is not GFI) and whose template holds no
\* <Placeholder> token has an empty slot list.
C12_NoPlaceholderNoSlotGeneric ==
    (/\ HasCommand /\ IsGeneric(SelectedCommand)
     /\ findall_placeholders(SelectedCommand.syntax) = <<>>) =>
        cmd_param_widgets = <<>>

\* the generic command "Fly" selected and rendered: no slot, the verb alone
C12_Witness ==
    /\ tab = TabCommands /\ HasCommand /\ IsGeneric(SelectedCommand)
    /\ findall_placeholders(SelectedCommand.syntax) = <<>>
    /\ cmd_param_widgets = <<>>
    /\ out_lbl = <<"F","l","y">>

\* C13: resolution is deterministic and idempotent.  Whenever the command combo
\* box changes (a command is selected, or the list is filtered) and a command
\* is selected afterwards, the slots are exactly those the descriptor and the
\* catalogs determine, with their default values, whatever was selected or
\* entered before; and in every state the labels, kinds, ranges and choices of
\* the slots are those of the selected descriptor.
C13_ResolveIdempotent ==
    /\ [](HasCommand =>
            SlotShape(cmd_param_widgets)
                = SlotShape(resolveParameters(SelectedCommand, items, creatures)))
    /\ [][(dd_commands' # dd_commands /\ dd_commands'.index # -1) =>
             cmd_param_widgets' =
                 resolveParameters(currentRow(dd_commands', commands), items, creatures)]_vars

\* a command other than the first was selected and holds its default slots
C13_Witness ==
    /\ tab = TabCommands /\ HasCommand /\ dd_commands.index > 0
    /\ Len(cmd_param_widgets) > 0
    /\ cmd_param_widgets = resolveParameters(SelectedCommand, items, creatures)

\* the catalog position of the selected command, 0 when none is selected
SelectedRow == IF HasCommand THEN dd_commands.rows[dd_commands.index + 1] ELSE 0

\* C14: the slots and the values entered into them live until the selected
\* command changes.  A step that leaves the selected command as it was keeps
\* the slots' labels, kinds, ranges and choices; when it is an edit of a search
\* text or a tab switch it keeps every value too, and when it is an edit of a
\* parameter it changes the value of one slot at most.
C14_SlotsLiveUntilCommandChange ==
    [][SelectedRow' = SelectedRow =>
          /\ SlotShape(cmd_param_widgets') = SlotShape(cmd_param_widgets)
          /\ (search' # search \/ tab' # tab) => cmd_param_widgets' = cmd_param_widgets
          /\ Cardinality({i \in 1..Len(cmd_param_widgets) :
                             cmd_param_widgets'[i] # cmd_param_widgets[i]}) <= 1]_vars

\* C19: the output of the Commands tab holds no <Placeholder> token: what is
\* copied from the template is literal verb tokens only.
C19_NoPlaceholderInOutput ==
    (tab = TabCommands /\ HasCommand) => findall_placeholders(out_lbl) = <<>>

\* no two records of the list share their command
UniqueCommands(favs) ==
    \A i, j \in 1..Len(favs) : favs[i].command = favs[j].command => i = j

\* C15: in every reachable state of the favorites store no two favorites share
\* the same command string, in the list in memory and in the list of the file:
\* after a start that loads the file and after any add_favorite and
\* remove_favorite, whatever the tab types and descriptions.
C15_UniqueCommands ==
    UniqueCommands(favorites) /\ UniqueCommands(favorites_file.content)

\* two favorites of different tab types and descriptions, loaded from the file
\* or saved to it
C15_Witness ==
    /\ Len(favorites) = 2
    /\ favorites[1].tab_type # favorites[2].tab_type
    /\ favorites[1].description # favorites[2].description
    /\ favorites_file = JsonFile(favorites)

\* the search box _build_ui puts on tab 0..5
TabSearchBox == <<"search_items", "search_creatures", "search_taming",
                  "search_locations", "search_colors", "search_commands">>

\* C16: the keyboard shortcuts do what the help text states.  After Ctrl+C
\* with a command showing, the clipboard holds it; after Ctrl+F on a tab with a
\* search box, that box has the focus; after Ctrl+D with a command showing on
\* a generator tab, the command is among the favorites; after Ctrl+1 .. Ctrl+8
\* the tab of that position is the current one.
C16_ShortcutsAsHelp ==
    /\ shortcut = "Ctrl+C" /\ out_lbl # <<>> => clipboard = out_lbl
    /\ shortcut = "Ctrl+F" /\ tab + 1 \in DOMAIN TabSearchBox
          => focus = TabSearchBox[tab + 1]
    /\ shortcut = "Ctrl+D" /\ out_lbl # <<>> /\ tab # taming_index
          => \E i \in 1..Len(favorites) : favorites[i].command = out_lbl
    /\ \A i \in 0..(tabsize - 1) : shortcut = CtrlDigitKeys[i + 1] => tab = i

\* C17: _focus_search gives the focus to the search box of the active tab, for
\* each of the six tabs that have one, and raises on no tab 0..7.
C17_FocusOwnSearchBox ==
    shortcut = "Ctrl+S" =>
        /\ ~raised
        /\ tab + 1 \in DOMAIN TabSearchBox => focus = TabSearchBox[tab + 1]

\* a string value of the JSON value holds a match of _pattern
RECURSIVE HasReference(_)
HasReference(value) ==
    IF value.kind = "str" THEN _pattern_search(value.text)
    ELSE \E i \in DOMAIN value.elems : HasReference(value.elems[i])

\* C18: for every input value, no string value of clean_value's result, at any
\* depth of lists and dicts, holds a match of the pattern, and clean_value
\* applied to the result changes nothing.
C18_CleanRemovesAll ==
    json_cleaned # NoJson =>
        /\ ~HasReference(json_cleaned)
        /\ clean_value(json_cleaned) = json_cleaned

\* C20: after every user event, using or removing a favorite included, the
\* output field holds the rendering of the current state: the template of the
\* active tab applied to its selection and option values, and the empty string
\* on the Taming, Favorites and Info tabs.  Stated for the events whose
\* handler ran to its end.
C20_OutputIsRendering ==
    ~raised => out_lbl = OutputText(Self)

\* C21: after start-up and after every change of the command search text or of
\* the command selection, the description label shows the description of the
\* command selected in the command dropdown, and is empty when none is selected.
C21_DescriptionShown ==
    desc_lbl = IF HasCommand THEN SelectedCommand.description ELSE <<>>

====
